---- MODULE Spec2Model ----
(***************************************************************************)
(* Model of src/audio_player.py: combine_wav_files / get_current_file and  *)
(* the AudioPlayer session (control thread + update_progress thread).     *)
(*                                                                         *)
(* Time and offsets are integers in one common unit (the scenario of the   *)
(* position index uses a unit of 0.5 s).  Program positions are named      *)
(* after the source line they stand at: "L244" is line 244.                *)
(***************************************************************************)
EXTENDS Integers, Sequences, FiniteSets, TLC

\* ------------------------------------------------------------------ bounds
MaxFiles == 3
MaxDur == 2
MaxGap == 2
MaxTime == 1
NumThreads == 2
MaxDisplay == 2

\* ------------------------------------------------------------ value spaces
Paths == {"out/a.wav", "out/b.wav", "out/c.wav"}

Unknown == "UNKNOWN"

\* line 55: os.path.basename
basename(path) ==
    CASE path = "out/a.wav" -> "a.wav"
      [] path = "out/b.wav" -> "b.wav"
      [] path = "out/c.wav" -> "c.wav"
      [] OTHER -> path

\* The scenario of the position index: durations [2.0, 3.5, 1.0] s, gap 3 s,
\* in units of 0.5 s.
ScenarioFiles == <<"out/a.wav", "out/b.wav", "out/c.wav">>
ScenarioDur ==
    [p \in Paths |-> CASE p = "out/a.wav" -> 4
                       [] p = "out/b.wav" -> 7
                       [] OTHER -> 2]
ScenarioGap == 6

\* The folder the player of the session model is constructed on.
PlayerConfig ==
    [files |-> <<"out/a.wav", "out/b.wav">>, dur |-> [p \in Paths |-> 1], gap |-> 1]

VARIABLES
    \* combine_wav_files: inputs and results
    wav_files, gap_seconds, durOf, built, combined_audio, file_positions,
    cw_position, q_offset, q_result,
    \* construction: the AudioPlayer object a caller holds, the exception
    \* that reached the caller, and whether the widgets were displayed
    player, raised, shown,
    \* module / AudioPlayer fields
    HAVE_SIMPLEAUDIO, playing, play_obj, current_position, current_file_name,
    start_position, start_time, position_slider, file_label, progress_thread,
    \* environment
    now, displayed,
    \* progress threads: program position and locals
    pc, new, elapsed,
    \* history: the user's last request, if a play, pause, stop or seek that
    \* found the session playing; a seek's offset and time
    op, opArg, opTime

combineVars == <<wav_files, gap_seconds, durOf, built, combined_audio,
                 file_positions, cw_position>>
queryVars == <<q_offset, q_result>>
ctorVars == <<player, raised, shown>>
fieldVars == <<playing, play_obj, current_position, current_file_name,
               start_position, start_time, position_slider, file_label,
               progress_thread, displayed>>
threadVars == <<pc, new, elapsed>>
histVars == <<op, opArg, opTime>>
playerVars == <<HAVE_SIMPLEAUDIO, fieldVars, now, threadVars, histVars>>
vars == <<combineVars, queryVars, ctorVars, playerVars>>

\* ------------------------------------------------------- combine_wav_files
\* line 69: the "not the last file" test compares the path values
NotLastFile(files, i) == files[i] # files[Len(files)]

\* lines 54-58: the entry's start is the cursor
EntryStart(st) == st.current_position

\* lines 52-71: one iteration of the loop, on the state
\* st = [combined, file_positions, current_position]
CombineStep(files, gap, dur, i, st) ==
    LET wav_file == files[i]
        appended == st.combined + dur[wav_file]
        entry == [file |-> basename(wav_file),
                  start |-> EntryStart(st),
                  end |-> appended]
    IN  IF NotLastFile(files, i)
        THEN [combined |-> appended + gap,
              file_positions |-> Append(st.file_positions, entry),
              current_position |-> appended + gap]
        ELSE [combined |-> appended,
              file_positions |-> Append(st.file_positions, entry),
              current_position |-> appended]

RECURSIVE CombineLoop(_, _, _, _, _)
CombineLoop(files, gap, dur, i, st) ==
    IF i > Len(files) THEN st
    ELSE CombineLoop(files, gap, dur, i + 1, CombineStep(files, gap, dur, i, st))

\* lines 27-73, for a non-empty list
combine_wav_files(files, gap, dur) ==
    CombineLoop(files, gap, dur, 1,
                [combined |-> 0, file_positions |-> << >>, current_position |-> 0])

\* line 146
InIntervalClosed(file_info, position) ==
    file_info.start <= position /\ position <= file_info.end
InInterval(file_info, position) ==
    file_info.start <= position /\ position < file_info.end

\* lines 143-148: the first entry that holds the position
get_current_file(positions, position) ==
    LET hits == {i \in 1..Len(positions) : InInterval(positions[i], position)}
    IN  IF hits = {} THEN Unknown
        ELSE positions[CHOOSE i \in hits : \A j \in hits : i <= j].file

\* line 128: the slider's max, the duration of the merged audio
TotalDuration == combined_audio

\* ------------------------------------------------------------------ threads
\* line 141: progress_thread = None
NoThread == 0
Threads == 1..NumThreads

\* The player's fields as one record s; s.pc holds the progress threads'
\* program positions.  Each statement of the class is a function on s, named
\* after its line; a method is the composition of its statements.
Self ==
    [playing |-> playing, play_obj |-> play_obj,
     current_position |-> current_position,
     current_file_name |-> current_file_name,
     start_position |-> start_position, start_time |-> start_time,
     position_slider |-> position_slider, file_label |-> file_label,
     progress_thread |-> progress_thread, displayed |-> displayed, pc |-> pc]

\* Thread.is_alive(): started, and update_progress has not returned
Alive(s, t) == s.pc[t] \notin {"dead", "new"}

\* lines 125-128: the FloatSlider keeps its value within [min, max]
ClampNone(v) == v
Clamp(v) ==
    IF v < 0 THEN 0 ELSE IF v > TotalDuration THEN TotalDuration ELSE v

\* ------------------------------------------------------------------- pause
L244(s) == [s EXCEPT !.playing = FALSE]
L248(s) ==
    [s EXCEPT !.play_obj = IF HAVE_SIMPLEAUDIO /\ @ = "playing"
                           THEN "stopped" ELSE @]

\* lines 239-249
pauseNoGuard(s) == L248(L244(s))
pause(s) == IF ~s.playing THEN s ELSE L248(L244(s))

\* -------------------------------------------------------------------- play
L191(s) == [s EXCEPT !.playing = TRUE]
L196(s) == [s EXCEPT !.start_position = s.position_slider]
L197(s) == [s EXCEPT !.start_time = now]
\* lines 202-204: the audio sliced from start_position is started
L204(s) == [s EXCEPT !.play_obj = "playing"]

\* line 207
SpawnAlways(s) == TRUE
SpawnNeeded(s) ==
    s.progress_thread = NoThread \/ ~Alive(s, s.progress_thread)

FreeThreads(s) == {t \in Threads : s.pc[t] = "dead"}

\* lines 208-209: a new Thread object, not yet started
L208(s) ==
    LET t == CHOOSE u \in FreeThreads(s) : \A w \in FreeThreads(s) : u <= w
    IN  [s EXCEPT !.progress_thread = t, !.pc[t] = "new"]

\* line 210: Thread.start()
L210(s) ==
    [s EXCEPT !.pc[s.progress_thread] = IF @ = "new" THEN "L152" ELSE @]

\* line 213: the status tells that position control is limited
L213(s) == [s EXCEPT !.file_label = "DEGRADED"]
\* line 214: display(Audio(output_path, autoplay=True)): one more audio
\* element, playing the whole merged audio from offset 0
L214(s) == [s EXCEPT !.displayed = @ + 1]

\* lines 200-214; ok: the audio file could be opened and sliced (216-237)
StartPlayback(s, ok) ==
    IF HAVE_SIMPLEAUDIO
    THEN IF ok
         THEN LET b == L204(s)
              IN  IF SpawnNeeded(b) THEN L210(L208(b)) ELSE b
         ELSE s
    ELSE L214(L213(s))

\* lines 186-214
playNoGuard(s, ok) == StartPlayback(L197(L196(L191(s))), ok)
play(s, ok) ==
    IF s.playing THEN s ELSE StartPlayback(L197(L196(L191(s))), ok)

\* ------------------------------------------------------ on_position_change
L262Keep(s, v) == s
L262(s, v) == [s EXCEPT !.current_position = v]
L263(s) ==
    [s EXCEPT !.current_file_name =
                  get_current_file(file_positions, s.current_position)]
\* line 264: the status is "prepared: <current_file_name>"
L264(s) == [s EXCEPT !.file_label = "PREPARED"]
L268(s, v) == [s EXCEPT !.current_position = v]

\* lines 258-269
on_position_change(s, v, ok) ==
    IF ~s.playing
    THEN L264(L263(L262(s, v)))
    ELSE play(L268(pause(s), v), ok)

\* a write of position_slider.value (lines 173, 254, or the user's drag):
\* the slider keeps the clamped value
SliderSet(s, v) == [s EXCEPT !.position_slider = Clamp(v)]

\* line 137: a write that changes the value calls the observer
\* on_position_change, in the writing thread, before the write returns
set_value(s, v, ok) ==
    IF Clamp(v) = s.position_slider THEN s
    ELSE on_position_change(SliderSet(s, v), Clamp(v), ok)

\* -------------------------------------------------------------------- stop
L255(s) == [s EXCEPT !.current_position = 0]
L256(s) == [s EXCEPT !.file_label = "STOPPED"]

\* lines 251-256
stop(s, ok) == L256(L255(set_value(pause(s), 0, ok)))

\* --------------------------------------------------------- update_progress
L158(s) == [s EXCEPT !.playing = FALSE]
L161(s) == [s EXCEPT !.file_label = "COMPLETED"]
L166(s, e) == [s EXCEPT !.current_position = s.start_position + e]
L169(s) == [s EXCEPT !.current_position = TotalDuration]
L170(s) == [s EXCEPT !.playing = FALSE]
L174(s) ==
    [s EXCEPT !.current_file_name =
                  get_current_file(file_positions, s.current_position)]
\* line 175: the status is "playing: <current_file_name>"
L175(s) == [s EXCEPT !.file_label = "PLAYING"]

\* ---------------------------------------------------------------- actions
\* the fields after a step
Store(s) ==
    /\ playing' = s.playing
    /\ play_obj' = s.play_obj
    /\ current_position' = s.current_position
    /\ current_file_name' = s.current_file_name
    /\ start_position' = s.start_position
    /\ start_time' = s.start_time
    /\ position_slider' = s.position_slider
    /\ file_label' = s.file_label
    /\ progress_thread' = s.progress_thread
    /\ displayed' = s.displayed

\* A callback of the control thread (lines 114, 123, 137) or a call by the
\* user is one step: the whole handler, with the calls it makes.
Handler(s) ==
    /\ FreeThreads(Self) # {}
    /\ s.displayed <= MaxDisplay
    /\ Store(s)
    /\ pc' = s.pc
    /\ UNCHANGED <<combineVars, queryVars, ctorVars, HAVE_SIMPLEAUDIO, now, new,
                   elapsed>>

\* play()
UserPlay ==
    \E fails \in BOOLEAN :
        /\ Handler(play(Self, ~fails))
        /\ op' = IF playing THEN "playPlaying" ELSE "other"
        /\ opArg' = 0
        /\ opTime' = 0

\* pause()
UserPause ==
    /\ Handler(pause(Self))
    /\ op' = IF playing THEN "pausePlaying" ELSE "other"
    /\ opArg' = 0
    /\ opTime' = 0

\* lines 179-184: the play button
toggle_play ==
    \E fails \in BOOLEAN :
        /\ Handler(IF playing THEN pause(Self) ELSE play(Self, ~fails))
        /\ op' = IF playing THEN "pausePlaying" ELSE "other"
        /\ opArg' = 0
        /\ opTime' = 0

\* stop()
UserStop ==
    \E fails \in BOOLEAN :
        /\ Handler(stop(Self, ~fails))
        /\ op' = "stop"
        /\ opArg' = 0
        /\ opTime' = 0

\* values a user can give the slider
SeekInputs == (0 - 1)..(TotalDuration + 1)

\* the user moves the slider to x (a seek)
UserSeek(x) ==
    \E fails \in BOOLEAN :
        /\ Clamp(x) # position_slider
        /\ Handler(set_value(Self, x, ~fails))
        /\ op' = IF playing THEN "seekPlaying" ELSE "other"
        /\ opArg' = IF playing THEN Clamp(x) ELSE 0
        /\ opTime' = IF playing THEN now ELSE 0

\* A step of progress thread t: the fields become s, t moves to next
Step(t, s, next) ==
    /\ Store(s)
    /\ pc' = [s.pc EXCEPT ![t] = next]
    /\ UNCHANGED <<combineVars, queryVars, ctorVars, HAVE_SIMPLEAUDIO, now,
                   histVars>>

\* line 152: the loop test
LoopAlways(s) == TRUE
LoopTest(s) == s.playing

Up152(t) ==
    /\ pc[t] = "L152"
    /\ Step(t, Self, IF LoopTest(Self) THEN "L153" ELSE "exit")
    /\ UNCHANGED <<new, elapsed>>

\* lines 153-156: no playback object, or one that no longer plays
Up153(t) ==
    /\ pc[t] = "L153"
    /\ Step(t, Self, IF ~HAVE_SIMPLEAUDIO \/ play_obj = "none" THEN "exit"
                     ELSE IF play_obj # "playing" THEN "L158"
                     ELSE "L165")
    /\ UNCHANGED <<new, elapsed>>

Up158(t) ==
    /\ pc[t] = "L158"
    /\ Step(t, L158(Self), "L161")
    /\ UNCHANGED <<new, elapsed>>

\* lines 161-162
Up161(t) ==
    /\ pc[t] = "L161"
    /\ Step(t, L161(Self), "exit")
    /\ UNCHANGED <<new, elapsed>>

\* line 165
Up165(t) ==
    /\ pc[t] = "L165"
    /\ elapsed' = [elapsed EXCEPT ![t] = now - start_time]
    /\ Step(t, Self, "L166")
    /\ UNCHANGED new

Up166(t) ==
    /\ pc[t] = "L166"
    /\ Step(t, L166(Self, elapsed[t]), "L168")
    /\ elapsed' = [elapsed EXCEPT ![t] = 0]
    /\ UNCHANGED new

\* line 168
Up168(t) ==
    /\ pc[t] = "L168"
    /\ Step(t, Self, IF current_position >= TotalDuration THEN "L169" ELSE "L173")
    /\ UNCHANGED <<new, elapsed>>

Up169(t) ==
    /\ pc[t] = "L169"
    /\ Step(t, L169(Self), "L170")
    /\ UNCHANGED <<new, elapsed>>

Up170(t) ==
    /\ pc[t] = "L170"
    /\ Step(t, L170(Self), "L173")
    /\ UNCHANGED <<new, elapsed>>

\* line 173: the write of the slider; a changed value enters the observer
Up173(t) ==
    /\ pc[t] = "L173"
    /\ IF Clamp(current_position) = position_slider
       THEN /\ Step(t, Self, "L174")
            /\ UNCHANGED new
       ELSE /\ Step(t, SliderSet(Self, current_position), "L260")
            /\ new' = [new EXCEPT ![t] = Clamp(current_position)]
    /\ UNCHANGED elapsed

\* line 260, in the progress thread
Opc260(t) ==
    /\ pc[t] = "L260"
    /\ Step(t, Self, IF playing THEN "L267" ELSE "L262")
    /\ UNCHANGED <<new, elapsed>>

Opc262(t) ==
    /\ pc[t] = "L262"
    /\ Step(t, L262(Self, new[t]), "L263")
    /\ new' = [new EXCEPT ![t] = 0]
    /\ UNCHANGED elapsed

Opc263(t) ==
    /\ pc[t] = "L263"
    /\ Step(t, L263(Self), "L264")
    /\ UNCHANGED <<new, elapsed>>

\* line 264, and the return to line 174
Opc264(t) ==
    /\ pc[t] = "L264"
    /\ Step(t, L264(Self), "L174")
    /\ UNCHANGED <<new, elapsed>>

\* line 267: the call of pause() and its test of playing (lines 241-242)
Opc267(t) ==
    /\ pc[t] = "L267"
    /\ Step(t, Self, IF playing THEN "L244" ELSE "L268")
    /\ UNCHANGED <<new, elapsed>>

Pause244(t) ==
    /\ pc[t] = "L244"
    /\ Step(t, L244(Self), "L248")
    /\ UNCHANGED <<new, elapsed>>

\* lines 248-249, and the return to line 268
Pause248(t) ==
    /\ pc[t] = "L248"
    /\ Step(t, L248(Self), "L268")
    /\ UNCHANGED <<new, elapsed>>

Opc268(t) ==
    /\ pc[t] = "L268"
    /\ Step(t, L268(Self, new[t]), "L269")
    /\ new' = [new EXCEPT ![t] = 0]
    /\ UNCHANGED elapsed

\* line 269: the call of play() and its test of playing (lines 188-189);
\* play() returns to the end of the observer, and that to line 174
Opc269(t) ==
    /\ pc[t] = "L269"
    /\ Step(t, Self, IF playing THEN "L174" ELSE "L191")
    /\ UNCHANGED <<new, elapsed>>

Play191(t) ==
    /\ pc[t] = "L191"
    /\ Step(t, L191(Self), "L196")
    /\ UNCHANGED <<new, elapsed>>

Play196(t) ==
    /\ pc[t] = "L196"
    /\ Step(t, L196(Self), "L197")
    /\ UNCHANGED <<new, elapsed>>

Play197(t) ==
    /\ pc[t] = "L197"
    /\ Step(t, L197(Self), "L200")
    /\ UNCHANGED <<new, elapsed>>

\* lines 200-204 in the progress thread, which runs only with simpleaudio
Play200(t) ==
    /\ pc[t] = "L200"
    /\ \E fails \in BOOLEAN :
          IF fails THEN Step(t, Self, "L174") ELSE Step(t, L204(Self), "L207")
    /\ UNCHANGED <<new, elapsed>>

\* lines 207-210 in the progress thread, and the return to line 174
Play207(t) ==
    /\ pc[t] = "L207"
    /\ IF SpawnNeeded(Self)
       THEN /\ FreeThreads(Self) # {}
            /\ Step(t, L210(L208(Self)), "L174")
       ELSE Step(t, Self, "L174")
    /\ UNCHANGED <<new, elapsed>>

Up174(t) ==
    /\ pc[t] = "L174"
    /\ Step(t, L174(Self), "L175")
    /\ UNCHANGED <<new, elapsed>>

\* lines 175-177: publish the status, sleep, and test the loop again
Up175(t) ==
    /\ pc[t] = "L175"
    /\ Step(t, L175(Self), "L152")
    /\ UNCHANGED <<new, elapsed>>

\* update_progress returns: the thread is no longer alive
UpExit(t) ==
    /\ pc[t] = "exit"
    /\ Step(t, Self, "dead")
    /\ UNCHANGED <<new, elapsed>>

\* ------------------------------------------------------------- environment
\* time.time() advances
Tick ==
    /\ now < MaxTime
    /\ now' = now + 1
    /\ UNCHANGED <<combineVars, queryVars, ctorVars, HAVE_SIMPLEAUDIO,
                   fieldVars, threadVars, histVars>>

\* the playback started at line 204 reaches the end of its audio
AudioFinish ==
    /\ play_obj = "playing"
    /\ play_obj' = "finished"
    /\ UNCHANGED <<combineVars, queryVars, ctorVars, HAVE_SIMPLEAUDIO, playing,
                   current_position, current_file_name, start_position,
                   start_time, position_slider, file_label, progress_thread,
                   displayed, now, threadVars, histVars>>

\* ----------------------------------------------------------- specification
\* lines 82-103 and 141: the player after construction
PlayerInit ==
    /\ HAVE_SIMPLEAUDIO \in BOOLEAN
    /\ playing = FALSE
    /\ play_obj = "none"
    /\ current_position = 0
    /\ current_file_name = ""
    /\ start_position = 0
    /\ start_time = 0
    /\ position_slider = 0
    /\ file_label = "READY"
    /\ progress_thread = NoThread
    /\ now = 0
    /\ displayed = 0
    /\ pc = [t \in Threads |-> "dead"]
    /\ new = [t \in Threads |-> 0]
    /\ elapsed = [t \in Threads |-> 0]
    /\ op = "other"
    /\ opArg = 0
    /\ opTime = 0

Init ==
    /\ wav_files = PlayerConfig.files
    /\ gap_seconds = PlayerConfig.gap
    /\ durOf = PlayerConfig.dur
    /\ built = TRUE
    /\ LET r == combine_wav_files(PlayerConfig.files, PlayerConfig.gap,
                                  PlayerConfig.dur)
       IN  /\ combined_audio = r.combined
           /\ file_positions = r.file_positions
           /\ cw_position = r.current_position
    /\ q_offset = 0
    /\ q_result = Unknown
    /\ player = "full"
    /\ raised = "none"
    /\ shown = TRUE
    /\ PlayerInit

Next ==
    \/ UserPlay
    \/ UserPause
    \/ toggle_play
    \/ UserStop
    \/ \E x \in SeekInputs : UserSeek(x)
    \/ \E t \in Threads : Up152(t)
    \/ \E t \in Threads : Up153(t)
    \/ \E t \in Threads : Up158(t)
    \/ \E t \in Threads : Up161(t)
    \/ \E t \in Threads : Up165(t)
    \/ \E t \in Threads : Up166(t)
    \/ \E t \in Threads : Up168(t)
    \/ \E t \in Threads : Up169(t)
    \/ \E t \in Threads : Up170(t)
    \/ \E t \in Threads : Up173(t)
    \/ \E t \in Threads : Opc260(t)
    \/ \E t \in Threads : Opc262(t)
    \/ \E t \in Threads : Opc263(t)
    \/ \E t \in Threads : Opc264(t)
    \/ \E t \in Threads : Opc267(t)
    \/ \E t \in Threads : Pause244(t)
    \/ \E t \in Threads : Pause248(t)
    \/ \E t \in Threads : Opc268(t)
    \/ \E t \in Threads : Opc269(t)
    \/ \E t \in Threads : Play191(t)
    \/ \E t \in Threads : Play196(t)
    \/ \E t \in Threads : Play197(t)
    \/ \E t \in Threads : Play200(t)
    \/ \E t \in Threads : Play207(t)
    \/ \E t \in Threads : Up174(t)
    \/ \E t \in Threads : Up175(t)
    \/ \E t \in Threads : UpExit(t)
    \/ Tick
    \/ AudioFinish

Spec == Init /\ [][Next]_vars

\* the progress threads are scheduled: a thread that can step does step
ThreadStep(t) ==
    \/ Up152(t) \/ Up153(t) \/ Up158(t) \/ Up161(t) \/ Up165(t) \/ Up166(t)
    \/ Up168(t) \/ Up169(t) \/ Up170(t) \/ Up173(t) \/ Opc260(t) \/ Opc262(t)
    \/ Opc263(t) \/ Opc264(t) \/ Opc267(t) \/ Pause244(t) \/ Pause248(t)
    \/ Opc268(t) \/ Opc269(t) \/ Play191(t) \/ Play196(t) \/ Play197(t)
    \/ Play200(t) \/ Play207(t) \/ Up174(t) \/ Up175(t) \/ UpExit(t)

FairSpec == Spec /\ \A t \in Threads : WF_vars(ThreadStep(t))

\* ------------------------------------- combine_wav_files as a state machine
\* the non-empty lists of at most MaxFiles paths
FileLists ==
    UNION {[1..n -> Paths] : n \in 1..MaxFiles}

InitCombine ==
    /\ \/ /\ wav_files \in FileLists
          /\ gap_seconds \in 0..MaxGap
          /\ durOf \in [Paths -> 1..MaxDur]
       \/ /\ wav_files = ScenarioFiles
          /\ gap_seconds = ScenarioGap
          /\ durOf = ScenarioDur
    /\ built = FALSE
    /\ combined_audio = 0
    /\ file_positions = << >>
    /\ cw_position = 0
    /\ q_offset = 0
    /\ q_result = "NONE"
    /\ player = "none"
    /\ raised = "none"
    /\ shown = FALSE
    /\ PlayerInit
    /\ HAVE_SIMPLEAUDIO

\* line 89: the call of combine_wav_files
Combine ==
    /\ ~built
    /\ built' = TRUE
    /\ LET r == combine_wav_files(wav_files, gap_seconds, durOf)
       IN  /\ combined_audio' = r.combined
           /\ file_positions' = r.file_positions
           /\ cw_position' = r.current_position
    /\ UNCHANGED <<wav_files, gap_seconds, durOf, queryVars, ctorVars,
                   playerVars>>

\* a call of get_current_file
Resolve(offset) ==
    /\ built
    /\ q_offset' = offset
    /\ q_result' = get_current_file(file_positions, offset)
    /\ UNCHANGED <<combineVars, ctorVars, playerVars>>

Offsets == (0 - 1)..(combined_audio + 1)

NextCombine ==
    \/ Combine
    \/ \E offset \in Offsets : Resolve(offset)

SpecCombine == InitCombine /\ [][NextCombine]_vars

\* ------------------------------------------ construction as a state machine
\* what get_wav_files can return for a folder: the lists of at most MaxFiles
\* paths, the empty one included
FolderLists == FileLists \cup {<< >>}

InitCreate ==
    /\ wav_files \in FolderLists
    /\ gap_seconds \in 0..MaxGap
    /\ durOf \in [Paths -> 1..MaxDur]
    /\ built = FALSE
    /\ combined_audio = 0
    /\ file_positions = << >>
    /\ cw_position = 0
    /\ q_offset = 0
    /\ q_result = "NONE"
    /\ player = "none"
    /\ raised = "none"
    /\ shown = FALSE
    /\ PlayerInit
    /\ HAVE_SIMPLEAUDIO

\* lines 82-103: AudioPlayer(folder, gap_seconds).  With no .wav file the
\* constructor prints a warning and returns (lines 84-86): the caller gets an
\* object that has the attribute wav_files and no other.
AudioPlayer_init ==
    /\ player = "none"
    /\ raised = "none"
    /\ IF wav_files = << >>
       THEN /\ player' = "partial"
            /\ UNCHANGED <<built, combined_audio, file_positions, cw_position>>
       ELSE /\ player' = "full"
            /\ built' = TRUE
            /\ LET r == combine_wav_files(wav_files, gap_seconds, durOf)
               IN  /\ combined_audio' = r.combined
                   /\ file_positions' = r.file_positions
                   /\ cw_position' = r.current_position
    /\ UNCHANGED <<wav_files, gap_seconds, durOf, queryVars, raised, shown,
                   playerVars>>

\* lines 271-278, called at line 292: display() reads file_label,
\* position_slider and the buttons, which a partial object does not have
display ==
    /\ player # "none"
    /\ raised = "none"
    /\ ~shown
    /\ IF player = "partial"
       THEN /\ raised' = "AttributeError"
            /\ UNCHANGED shown
       ELSE /\ shown' = TRUE
            /\ UNCHANGED raised
    /\ UNCHANGED <<combineVars, queryVars, player, playerVars>>

\* lines 39-40: combine_wav_files called on an empty list raises ValueError
CombineEmpty ==
    /\ player = "none"
    /\ raised = "none"
    /\ wav_files = << >>
    /\ raised' = "ValueError"
    /\ UNCHANGED <<combineVars, queryVars, player, shown, playerVars>>

NextCreate ==
    \/ AudioPlayer_init
    \/ display
    \/ CombineEmpty

SpecCreate == InitCreate /\ [][NextCreate]_vars

\* ------------------------------------------------------------------ claims
AlivePollers == {t \in Threads : Alive(Self, t)}

\* C1: in every reachable state at most one progress thread is alive, also
\* after a play() issued while the thread of an earlier play() has not yet
\* returned.
C1_AtMostOnePoller == Cardinality(AlivePollers) <= 1

\* a play() found the earlier thread out of its loop but still alive, and
\* started playback without a second thread
C1_Witness ==
    \E t \in Threads :
        /\ pc[t] = "exit"
        /\ progress_thread = t
        /\ playing
        /\ play_obj = "playing"
        /\ AlivePollers = {t}

\* C2: whenever playing is false, then (the progress threads being scheduled)
\* either some play() sets it again or no progress thread stays alive.
C2_PollerStops == (~playing) ~> (playing \/ AlivePollers = {})

\* the session was paused while playing and its thread has returned
C2_Witness ==
    /\ op = "pausePlaying"
    /\ ~playing
    /\ progress_thread # NoThread
    /\ AlivePollers = {}

\* C3: after a seek to x that found the session playing, current_position is
\* at least x and at most x plus the time elapsed since the seek, whatever
\* progress tick was under way at the seek.
C3_SeekRoundTrip ==
    op = "seekPlaying" =>
        /\ opArg <= current_position
        /\ current_position <= opArg + (now - opTime)

\* C4: after a pause() that found the session playing, and until the user's
\* next request, no step changes current_position.
C4_PauseFreezes ==
    [][(op = "pausePlaying" /\ op' = "pausePlaying")
          => current_position' = current_position]_vars

\* C5: after stop(), and until the user's next request, the session is not
\* playing and current_position and the slider are 0.
C5_StopResets ==
    op = "stop" =>
        /\ ~playing
        /\ current_position = 0
        /\ position_slider = 0

\* what get_current_file owes for offset o on the index fp of a merged audio
\* of duration total
ResolvedAs(fp, total, o, r) ==
    /\ \A i \in 1..Len(fp) :
          (fp[i].start <= o /\ o < fp[i].end) => r = fp[i].file
    /\ (o < 0 \/ o >= total) => r = Unknown
    /\ \A i \in 1..(Len(fp) - 1) :
          (fp[i].end <= o /\ o < fp[i + 1].start) => r = Unknown

IsScenario ==
    /\ wav_files = ScenarioFiles
    /\ gap_seconds = ScenarioGap
    /\ durOf = ScenarioDur

\* C6: on the index built by combine_wav_files, get_current_file returns
\* entry i's name for start_i <= offset < end_i and Unknown inside a gap,
\* below 0 and from the total duration on; for durations [2.0, 3.5, 1.0] s
\* and gap 3 s (unit 0.5 s) the total is 12.5 s, 1.0 s is file 1, 3.0 s is
\* Unknown and 6.5 s is file 2.
C6_ResolveByInterval ==
    built =>
        /\ \A o \in Offsets :
              ResolvedAs(file_positions, combined_audio, o,
                         get_current_file(file_positions, o))
        /\ q_result # "NONE" =>
              ResolvedAs(file_positions, combined_audio, q_offset, q_result)
        /\ IsScenario =>
              /\ combined_audio = 25
              /\ get_current_file(file_positions, 2) = "a.wav"
              /\ get_current_file(file_positions, 6) = Unknown
              /\ get_current_file(file_positions, 13) = "b.wav"

\* the scenario's index was asked for 3.0 s, in the first gap
C6_Witness ==
    /\ built
    /\ IsScenario
    /\ q_offset = 6
    /\ q_result = Unknown

RECURSIVE SumDur(_, _, _)
SumDur(files, dur, i) ==
    IF i > Len(files) THEN 0 ELSE dur[files[i]] + SumDur(files, dur, i + 1)

\* C7: for every non-empty list of n paths, distinct or not, the merged
\* audio lasts the sum of the durations plus gap * (n - 1), which is also the
\* cursor after the loop.
C7_TotalDuration ==
    built =>
        /\ combined_audio =
              SumDur(wav_files, durOf, 1) + gap_seconds * (Len(wav_files) - 1)
        /\ combined_audio = cw_position

\* C8: the entries are in non-decreasing order of start, do not overlap, and
\* entry i+1 starts exactly the gap after the end of entry i.
C8_PositionsSpaced ==
    built =>
        \A i \in 1..(Len(file_positions) - 1) :
            /\ file_positions[i].start <= file_positions[i + 1].start
            /\ file_positions[i].end <= file_positions[i + 1].start
            /\ file_positions[i + 1].start = file_positions[i].end + gap_seconds

C10_DegradedMode ==
    [][~HAVE_SIMPLEAUDIO =>
          /\ (UserPlay /\ ~playing) =>
                /\ playing'
                /\ displayed' = displayed + 1
                /\ file_label' = "DEGRADED"
          /\ (\E x \in SeekInputs : UserSeek(x)) =>
                UNCHANGED <<playing, displayed, current_position>>]_vars

\* C11: the constructor, on a folder with no .wav file, raises the no-input
\* error (ValueError) to its caller and leaves the caller with no player object.
C11_NoInputFails ==
    [][(AudioPlayer_init /\ wav_files = << >>)
          => (raised' = "ValueError" /\ player' = "none")]_vars

\* C12: in every reachable state a second pause() changes nothing after the
\* first (playing, current_position, current_file_name, play_obj and every
\* other field), and pause() on a session that is not playing changes nothing.
C12_PauseIdempotent ==
    /\ pause(pause(Self)) = pause(Self)
    /\ ~playing => pause(Self) = Self

\* pause() stopped the playback of a playing session
C12_Witness ==
    /\ op = "pausePlaying"
    /\ ~playing
    /\ play_obj = "stopped"

\* C13: a play() that finds the session playing leaves playing, the anchor
\* (start_position, start_time), play_obj, the progress threads and the
\* displayed audio elements as they are.
C13_PlayWhilePlayingNoOp ==
    [][(UserPlay /\ playing)
          => UNCHANGED <<playing, start_position, start_time, play_obj,
                         progress_thread, pc, displayed>>]_vars

\* play() was called on a playing session, later than its anchor
C13_Witness ==
    /\ op = "playPlaying"
    /\ playing
    /\ play_obj = "playing"
    /\ now > start_time

\* C14: a seek to an offset x of the merged audio that finds the session not
\* playing sets current_position to x and current_file_name to the file at x,
\* leaves playing false, starts no playback and no progress thread.
C14_SeekIdle ==
    [][\A x \in 0..TotalDuration :
          (UserSeek(x) /\ ~playing) =>
              /\ current_position' = x
              /\ current_file_name' = get_current_file(file_positions, x)
              /\ ~playing'
              /\ UNCHANGED <<play_obj, start_position, start_time,
                             progress_thread, pc, displayed>>]_vars

\* the user's seek on a session that never played: no thread was ever started
C14_Witness ==
    /\ file_label = "PREPARED"
    /\ ~playing
    /\ progress_thread = NoThread
    /\ play_obj = "none"
    /\ current_position > 0
    /\ current_position = position_slider
    /\ current_file_name = get_current_file(file_positions, current_position)

\* C15: with simpleaudio, whenever the session is playing and its playback was
\* started, a progress thread is alive for it.
C15_PollerWhilePlaying ==
    (HAVE_SIMPLEAUDIO /\ playing /\ play_obj = "playing") => AlivePollers # {}

\* C16: when the playback has reached the end of its audio while the session
\* is playing, then (the progress threads being scheduled) eventually playing
\* is false, unless a new playback was started in its place.
C16_CompletionDetected ==
    (playing /\ play_obj = "finished") ~> (~playing \/ play_obj # "finished")

\* C17: no step of a progress thread changes playing.
C17_PollerNeverWritesPlaying ==
    [][(\E t \in Threads : ThreadStep(t)) => playing' = playing]_vars

\* C18: no step of a progress thread changes play_obj or the anchor
\* (start_position, start_time): a tick never stops or restarts the playback.
C18_TickKeepsPlayback ==
    [][(\E t \in Threads : ThreadStep(t))
          => UNCHANGED <<play_obj, start_position, start_time>>]_vars

\* C19: in every reachable state 0 <= current_position <= totalDuration.
C19_PositionInRange ==
    0 <= current_position /\ current_position <= TotalDuration

\* C20: a play() that resumes a session paused by pause() anchors at
\* current_position: the start_position it records is the current_position of
\* that moment.
C20_ResumeFromPause ==
    [][(UserPlay /\ ~playing /\ op = "pausePlaying")
          => start_position' = current_position]_vars

====
